---- MODULE Spec2Model ----
(***************************************************************************)
(* HS code classifier: the classification pipeline (classifyProduct), the  *)
(* persistence gateway (DatabaseService, with its retry wrapper) and the   *)
(* two UI flows of App that use them (handleClassification and             *)
(* loadSearchHistory).                                                     *)
(*                                                                         *)
(* Texts (error messages, completion texts) are sequences of tokens, so    *)
(* that String.includes and the brace regex are computed, not assumed.     *)
(***************************************************************************)
EXTENDS Integers, Sequences, FiniteSets, TLC

VARIABLES
    store,              \* rows of table classifications, in insertion order
    nextId,             \* next server-assigned identifier
    results,            \* App state: the displayed result list
    isLoading,          \* App state
    error,              \* App state: message shown, NoError for null
    isLoadingHistory,   \* App state
    hc,                 \* the running handleClassification call
    lh,                 \* the running loadSearchHistory call
    submits,            \* submissions started so far
    loads,              \* history loads started so far
    api,                \* how the last completion request settled
    cp,                 \* what classifyProduct made of it
    clock,              \* the store's now()
    gw                  \* the last call made on its own, with what it returned

vars == <<store, nextId, results, isLoading, error, isLoadingHistory,
          hc, lh, submits, loads, api, cp, clock, gw>>

uiVars == <<store, nextId, results, isLoading, error, isLoadingHistory,
            hc, lh, submits, loads>>

appVars == <<results, isLoading, error, isLoadingHistory, hc, lh, submits,
             loads, api, cp>>

-----------------------------------------------------------------------------
(* Bounds of the model *)

MaxSubmits == 2
MaxRefreshes == 1
MaxFields == 4

-----------------------------------------------------------------------------
(* Texts as token sequences *)

\* String.prototype.includes: pat occurs contiguously in msg
Includes(msg, pat) ==
    \E i \in 0..(Len(msg) - Len(pat)) : SubSeq(msg, i + 1, i + Len(pat)) = pat

NoError == <<>>

Min(a, b) == IF a < b THEN a ELSE b

Take(s, n) == SubSeq(s, 1, Min(n, Len(s)))

RECURSIVE Reverse(_)
Reverse(s) == IF s = <<>> THEN <<>> ELSE Append(Reverse(Tail(s)), Head(s))

-----------------------------------------------------------------------------
(* DatabaseService.retryOperation *)

DefaultRetries == 2
BaseDelay == 1000

FailedToFetch == <<"Failed", "to", "fetch">>

\* the catch's condition: retries > 0 && error instanceof Error &&
\* error.message.includes('Failed to fetch')
ShouldRetryUnbounded(retries, message) == Includes(message, FailedToFetch)
ShouldRetry(retries, message) ==
    retries > 0 /\ Includes(message, FailedToFetch)

\* delay * 1.5
NextDelayFlat(delay) == delay
NextDelay(delay) == (delay * 3) \div 2

-----------------------------------------------------------------------------
(* classifyProduct: the completion text and its extraction *)

\* A completion text is a sequence of tokens: a brace, a run of prose, or one
\* "key": value member of a JSON object (s its string value, n its number).
Tok(k, s, n) == [k |-> k, s |-> s, n |-> n]
LBrace == Tok("{", "", 0)
RBrace == Tok("}", "", 0)
Prose == Tok("w", "", 0)

Keys == {"hsCode", "chapter", "description", "confidence", "isDualUse"}

FieldTokens ==
    { Tok("hsCode", "8471.30.01", 0), Tok("hsCode", "", 0),
      Tok("chapter", "84 - Machines", 0), Tok("chapter", "", 0),
      Tok("description", "Portable computer", 0), Tok("description", "", 0),
      Tok("confidence", "", 85), Tok("confidence", "", 150) }

\* the object JSON.parse builds from the members: a repeated key keeps its
\* last value, an absent key is undefined (not in has)
LastOf(fields, k) ==
    LET I == { i \in DOMAIN fields : fields[i].k = k }
    IN  fields[CHOOSE i \in I : \A j \in I : j <= i]

Present(fields) == { fields[i].k : i \in DOMAIN fields }

ObjectOf(fields) ==
    LET has == Present(fields)
        str(k) == IF k \in has THEN LastOf(fields, k).s ELSE ""
        num(k) == IF k \in has THEN LastOf(fields, k).n ELSE 0
    IN  [ has |-> has,
          hsCode |-> str("hsCode"),
          chapter |-> str("chapter"),
          description |-> str("description"),
          confidence |-> num("confidence"),
          isDualUse |-> IF "isDualUse" \in has
                        THEN LastOf(fields, "isDualUse").n = 1 ELSE FALSE ]

NoObject == ObjectOf(<<>>)

\* response.match(/\{[\s\S]*\}/): from the first '{' to the last '}' after it
FirstLBrace(response) ==
    LET I == { i \in DOMAIN response : response[i] = LBrace }
    IN  IF I = {} THEN 0 ELSE CHOOSE i \in I : \A j \in I : i <= j

LastRBrace(response) ==
    LET I == { i \in DOMAIN response : response[i] = RBrace }
    IN  IF I = {} THEN 0 ELSE CHOOSE i \in I : \A j \in I : j <= i

HasMatch(response) ==
    FirstLBrace(response) > 0 /\ LastRBrace(response) > FirstLBrace(response)

JsonMatch(response) ==
    SubSeq(response, FirstLBrace(response), LastRBrace(response))

\* JSON.parse of a span that starts with '{' and ends with '}': it parses when
\* everything between the two braces is a member
Members(span) == SubSeq(span, 2, Len(span) - 1)

Parses(span) ==
    \A i \in DOMAIN Members(span) : Members(span)[i].k \in Keys

\* !classification.hsCode: undefined and '' are falsy
Falsy(obj, k, s) == k \notin obj.has \/ s = ""

NoResponse == <<"No", "response", "from", "OpenAI">>
InvalidJSON == <<"Invalid", "JSON", "response", "from", "OpenAI">>
IncompleteData == <<"Incomplete", "classification", "data", "from", "OpenAI">>
\* the message of the SyntaxError JSON.parse throws
SyntaxErrorMessage == <<"Unexpected", "token", "in", "JSON">>
ClassificationFailedPrefix == <<"Classification", "failed:">>

Thrown(message) == [ok |-> FALSE, value |-> NoObject, message |-> message]
ReturnedClamped(obj) ==
    [ ok |-> TRUE,
      value |-> [obj EXCEPT !.confidence =
                    IF @ > 100 THEN 100 ELSE IF @ < 0 THEN 0 ELSE @],
      message |-> NoError ]
Returned(obj) == [ok |-> TRUE, value |-> obj, message |-> NoError]

\* the body of the try block after the completion has arrived
ExtractClassification(response) ==
    IF response = <<>> THEN Thrown(NoResponse)
    ELSE IF ~HasMatch(response) THEN Thrown(InvalidJSON)
    ELSE IF ~Parses(JsonMatch(response)) THEN Thrown(SyntaxErrorMessage)
    ELSE LET classification == ObjectOf(Members(JsonMatch(response)))
         IN  IF \/ Falsy(classification, "hsCode", classification.hsCode)
                \/ Falsy(classification, "chapter", classification.chapter)
                \/ Falsy(classification, "description", classification.description)
             THEN Thrown(IncompleteData)
             ELSE Returned(classification)

\* the catch block: every error thrown inside the try is thrown again as
\* `Classification failed: ${error.message}`
Rethrown(message) == Thrown(ClassificationFailedPrefix \o message)

\* classifyProduct, given how the completion request settled
ClassifyProduct(completion) ==
    IF completion.failed THEN Rethrown(completion.message)
    ELSE LET r == ExtractClassification(completion.text)
         IN  IF r.ok THEN r ELSE Rethrown(r.message)

-----------------------------------------------------------------------------
(* The remote completion service *)

RateLimited == <<"429", "Rate", "limit", "reached">>
ConnectionError == <<"Connection", "error.">>

ApiFailures == { RateLimited, ConnectionError }

Member(k, s, n) == Tok(k, s, n)

CompleteText(confidence) ==
    << Prose, LBrace, Member("hsCode", "8471.30.01", 0),
       Member("chapter", "84 - Machines", 0),
       Member("description", "Portable computer", 0),
       Member("confidence", "", confidence), Member("isDualUse", "", 1),
       RBrace, Prose >>

\* the completion texts the service answers with in the UI flows
Completions ==
    { CompleteText(85), CompleteText(150),
      << LBrace, Member("hsCode", "8471.30.01", 0),
         Member("chapter", "84 - Machines", 0), RBrace >>,
      << Prose >>,
      << LBrace, Prose, RBrace >> }

ApiFailed(message) == [failed |-> TRUE, message |-> message, text |-> <<>>]
ApiAnswered(response) == [failed |-> FALSE, message |-> NoError, text |-> response]

-----------------------------------------------------------------------------
(* The store: table classifications *)

FetchFailure == <<"TypeError:", "Failed", "to", "fetch">>
PermissionDenied == <<"permission", "denied", "for", "table", "classifications">>
CheckViolation == <<"violates", "check", "constraint">>
NotNullViolation == <<"violates", "not-null", "constraint">>

\* a table whose CHECK lets 101 through
ConstraintErrorTo101(rec) ==
    IF ~rec.hasConfidence THEN NotNullViolation
    ELSE IF ~(rec.confidence >= 0 /\ rec.confidence <= 101) THEN CheckViolation
    ELSE NoError

\* confidence integer NOT NULL CHECK (confidence >= 0 AND confidence <= 100)
ConstraintError(rec) ==
    IF ~rec.hasConfidence THEN NotNullViolation
    ELSE IF ~(rec.confidence >= 0 /\ rec.confidence <= 100) THEN CheckViolation
    ELSE NoError

\* a row as the store keeps it: id and the two timestamps are the column
\* defaults (gen_random_uuid(), now()); customer_name is <<>> for NULL and
\* <<name>> otherwise
Row(id, rec, now) ==
    [ id |-> id,
      product_name |-> rec.product_name,
      customer_name |-> rec.customer_name,
      hs_code |-> rec.hs_code,
      chapter |-> rec.chapter,
      description |-> rec.description,
      confidence |-> rec.confidence,
      is_dual_use |-> rec.is_dual_use,
      created_at |-> now,
      updated_at |-> now ]

\* How one request to the store can end, apart from the constraint checks:
\* answered; refused by the access policy; lost on the way to the store;
\* applied by the store with the answer lost on the way back.
Answered == [applied |-> TRUE, message |-> NoError]
Refused == [applied |-> FALSE, message |-> PermissionDenied]
RequestLost == [applied |-> FALSE, message |-> FetchFailure]
ResponseLost == [applied |-> TRUE, message |-> FetchFailure]

RequestOutcomes == { Answered, Refused, RequestLost, ResponseLost }

\* the error the client gets for an insert of rec that ends as outcome
InsertError(rec, outcome) ==
    IF outcome.message # NoError THEN outcome.message ELSE ConstraintError(rec)

InsertApplied(rec, outcome) ==
    outcome.applied /\ ConstraintError(rec) = NoError

-----------------------------------------------------------------------------
(* A call wrapped in retryOperation *)

SaveFailedPrefix == <<"Failed", "to", "save", "classification:">>
FetchFailedPrefix == <<"Failed", "to", "fetch", "classifications:">>

\* the Error the wrapped operation throws for a store error
OperationError(op, message) ==
    IF op = "saveClassification" THEN SaveFailedPrefix \o message
    ELSE FetchFailedPrefix \o message

NoCall ==
    [ op |-> "none", pc |-> "none", retries |-> DefaultRetries,
      delay |-> BaseDelay, attempts |-> 0, waited |-> <<>>, trace |-> <<>>,
      thrown |-> NoError ]

\* retryOperation(operation) with the default retries and delay
NewCall(op) == [NoCall EXCEPT !.op = op, !.pc = "attempting"]

\* one run of try { return await operation() } catch: storeError is what the
\* store reported to this invocation (NoError when it answered)
AfterAttempt(c, storeError) ==
    LET c1 == [c EXCEPT !.attempts = @ + 1, !.trace = Append(@, storeError)]
        thrown == OperationError(c.op, storeError)
    IN  IF storeError = NoError THEN [c1 EXCEPT !.pc = "returned"]
        ELSE IF ShouldRetry(c.retries, thrown) THEN [c1 EXCEPT !.pc = "waiting"]
        ELSE [c1 EXCEPT !.pc = "failed", !.thrown = thrown]

\* the setTimeout has fired: this.retryOperation(operation, retries - 1, delay * 1.5)
AfterDelay(c) ==
    [c EXCEPT !.pc = "attempting", !.retries = @ - 1,
              !.waited = Append(@, c.delay), !.delay = NextDelay(@)]

-----------------------------------------------------------------------------
(* App: state and the two flows *)

ProductNames == { "Laptop computer" }

HistoryLimit == 50

UnableToConnect ==
    <<"Unable", "to", "connect", "to", "database.", "Please", "check", "your",
      "connection", "and", "try", "again.">>

LocalId(n) == [src |-> "Date.now", n |-> n]
StoreId(n) == [src |-> "uuid", n |-> n]

\* the ClassificationResult handleClassification builds
ResultOf(n, productName, classification) ==
    [ id |-> LocalId(n),
      productName |-> productName,
      hsCode |-> classification.hsCode,
      chapter |-> classification.chapter,
      description |-> classification.description,
      confidence |-> classification.confidence,
      isDualUse |-> classification.isDualUse ]

\* the ClassificationInsert it saves
DbRecordOf(productName, classification) ==
    [ product_name |-> productName,
      customer_name |-> <<>>,
      hs_code |-> classification.hsCode,
      chapter |-> classification.chapter,
      description |-> classification.description,
      confidence |-> classification.confidence,
      hasConfidence |-> "confidence" \in classification.has,
      is_dual_use |-> classification.isDualUse ]

NoResult == ResultOf(0, "", NoObject)
NoRecord == DbRecordOf("", NoObject)

\* loadSearchHistory: record => ClassificationResult
Converted(record) ==
    [ id |-> record.id,
      productName |-> record.product_name,
      hsCode |-> record.hs_code,
      chapter |-> record.chapter,
      description |-> record.description,
      confidence |-> record.confidence,
      isDualUse |-> record.is_dual_use ]

ConvertedResults(data) == [i \in DOMAIN data |-> Converted(data[i])]

\* getClassifications({limit: 50, sortBy: 'created_at', sortOrder: 'desc'}):
\* rows are kept in creation order
HistoryPage(rows) == Take(Reverse(rows), HistoryLimit)

Pending == ApiAnswered(<<>>)
NotCalled == Thrown(NoError)

\* no call has been made on its own
NoGatewayCall == [op |-> "none", arg |-> <<>>, ret |-> <<>>, err |-> NoError]

Idle ==
    [ pc |-> "idle", productName |-> "", result |-> NoResult,
      dbRecord |-> NoRecord, requests |-> 0, inserted |-> 0,
      call |-> NoCall, outcome |-> "none" ]

ExistingRow ==
    Row(StoreId(0),
        [ product_name |-> "Steel bolt", customer_name |-> <<>>,
          hs_code |-> "7318.15.00",
          chapter |-> "73 - Articles of iron or steel",
          description |-> "Threaded bolts", confidence |-> 92,
          hasConfidence |-> TRUE, is_dual_use |-> FALSE ],
        0)

InitialStores == { <<ExistingRow>> }

\* App has mounted: useEffect has called loadSearchHistory, which runs up to
\* its first await
Init ==
    /\ store \in InitialStores
    /\ nextId = 1
    /\ results = <<>>
    /\ isLoading = FALSE
    /\ error = NoError
    /\ isLoadingHistory = TRUE
    /\ hc = Idle
    /\ lh = NewCall("getClassifications")
    /\ submits = 0
    /\ loads = 0
    /\ api = Pending
    /\ cp = NotCalled
    /\ clock = 1
    /\ gw = NoGatewayCall

\* a form whose submit button stays enabled while isLoading
HC_SubmitWhileLoading(productName) ==
    /\ submits < MaxSubmits
    /\ submits' = submits + 1
    /\ isLoading' = TRUE
    /\ error' = NoError
    /\ hc' = [Idle EXCEPT !.pc = "classifying", !.productName = productName,
                          !.requests = 1]
    /\ api' = Pending
    /\ cp' = NotCalled
    /\ UNCHANGED <<clock, gw, store, nextId, results, isLoadingHistory, lh, loads>>

\* ClassificationForm.handleSubmit -> handleClassification, up to the await
\* of the completion request; the submit button is disabled while isLoading
HC_Submit(productName) ==
    /\ ~isLoading
    /\ submits < MaxSubmits
    /\ submits' = submits + 1
    /\ isLoading' = TRUE
    /\ error' = NoError
    /\ hc' = [Idle EXCEPT !.pc = "classifying", !.productName = productName,
                          !.requests = 1]
    /\ api' = Pending
    /\ cp' = NotCalled
    /\ UNCHANGED <<clock, gw, store, nextId, results, isLoadingHistory, lh, loads>>

\* a handleClassification that goes on to the save whatever classifyProduct
\* made of the completion
HC_AfterClassifyThenSave(r) ==
    /\ hc' = [hc EXCEPT !.pc = "saving",
                        !.result = ResultOf(submits, hc.productName, r.value),
                        !.dbRecord = DbRecordOf(hc.productName, r.value),
                        !.call = NewCall("saveClassification")]
    /\ UNCHANGED <<error, isLoading>>

\* a handleClassification without the finally block
HC_AfterClassifyNoFinally(r) ==
    IF r.ok
    THEN /\ hc' = [hc EXCEPT !.pc = "saving",
                             !.result = ResultOf(submits, hc.productName, r.value),
                             !.dbRecord = DbRecordOf(hc.productName, r.value),
                             !.call = NewCall("saveClassification")]
         /\ UNCHANGED <<error, isLoading>>
    ELSE /\ hc' = [hc EXCEPT !.pc = "idle", !.outcome = "classify_failed"]
         /\ error' = r.message
         /\ UNCHANGED isLoading

\* the rest of handleClassification once classifyProduct has settled as r
HC_AfterClassify(r) ==
    IF r.ok
    THEN /\ hc' = [hc EXCEPT !.pc = "saving",
                             !.result = ResultOf(submits, hc.productName, r.value),
                             !.dbRecord = DbRecordOf(hc.productName, r.value),
                             !.call = NewCall("saveClassification")]
         /\ UNCHANGED <<error, isLoading>>
    ELSE /\ hc' = [hc EXCEPT !.pc = "idle", !.outcome = "classify_failed"]
         /\ error' = r.message
         /\ isLoading' = FALSE

\* a handleClassification that asks again when the completion request fails
HC_CompletionFailedRetried(message) ==
    /\ hc.pc = "classifying"
    /\ hc' = [hc EXCEPT !.requests = @ + 1]
    /\ hc.requests < 3
    /\ UNCHANGED <<clock, gw, store, nextId, results, isLoading, error, isLoadingHistory,
                   lh, submits, loads, api, cp>>

\* openai.chat.completions.create rejects
HC_CompletionFailed(message) ==
    /\ hc.pc = "classifying"
    /\ api' = ApiFailed(message)
    /\ cp' = ClassifyProduct(api')
    /\ HC_AfterClassify(cp')
    /\ UNCHANGED <<clock, gw, store, nextId, results, isLoadingHistory, lh, submits, loads>>

\* openai.chat.completions.create resolves with a completion text
HC_CompletionArrived(response) ==
    /\ hc.pc = "classifying"
    /\ api' = ApiAnswered(response)
    /\ cp' = ClassifyProduct(api')
    /\ HC_AfterClassify(cp')
    /\ UNCHANGED <<clock, gw, store, nextId, results, isLoadingHistory, lh, submits, loads>>

\* setResults(prev => [result, ...prev])
AppendLast(result, prev) == prev \o <<result>>
Prepend(result, prev) == <<result>> \o prev

\* one invocation of saveClassification's operation, and what follows it in
\* handleClassification when the wrapped call settles
HC_SaveAttempt(outcome) ==
    /\ hc.pc = "saving"
    /\ hc.call.pc = "attempting"
    /\ LET applied == InsertApplied(hc.dbRecord, outcome)
           c == AfterAttempt(hc.call, InsertError(hc.dbRecord, outcome))
       IN  /\ store' = IF applied THEN Append(store, Row(StoreId(nextId), hc.dbRecord, clock))
                       ELSE store
           /\ nextId' = IF applied THEN nextId + 1 ELSE nextId
           /\ clock' = IF applied THEN clock + 1 ELSE clock
           /\ IF c.pc = "waiting"
              THEN /\ hc' = [hc EXCEPT !.call = c,
                                       !.inserted = @ + (IF applied THEN 1 ELSE 0)]
                   /\ UNCHANGED <<results, isLoading>>
              ELSE /\ hc' = [hc EXCEPT !.call = c, !.pc = "idle",
                                       !.inserted = @ + (IF applied THEN 1 ELSE 0),
                                       !.outcome = IF c.pc = "returned" THEN "saved"
                                                   ELSE "save_failed"]
                   /\ results' = Prepend(hc.result, results)
                   /\ isLoading' = FALSE
    /\ UNCHANGED <<gw, error, isLoadingHistory, lh, submits, loads, api, cp>>

\* the retry delay of the save has elapsed
HC_SaveDelayElapsed ==
    /\ hc.pc = "saving"
    /\ hc.call.pc = "waiting"
    /\ hc' = [hc EXCEPT !.call = AfterDelay(hc.call)]
    /\ UNCHANGED <<clock, gw, store, nextId, results, isLoading, error, isLoadingHistory,
                   lh, submits, loads, api, cp>>

\* SearchHistory's refresh button (disabled while isLoadingHistory)
LH_Refresh ==
    /\ ~isLoadingHistory
    /\ lh.pc \in {"returned", "failed"}
    /\ loads < MaxRefreshes
    /\ loads' = loads + 1
    /\ isLoadingHistory' = TRUE
    /\ error' = NoError
    /\ lh' = NewCall("getClassifications")
    /\ UNCHANGED <<clock, gw, store, nextId, results, isLoading, hc, submits, api, cp>>

\* one invocation of getClassifications' operation, and what follows it in
\* loadSearchHistory when the wrapped call settles
LH_FetchAttempt(storeError) ==
    /\ lh.pc = "attempting"
    /\ LET c == AfterAttempt(lh, storeError)
       IN  /\ lh' = c
           /\ IF c.pc = "waiting"
              THEN UNCHANGED <<results, error, isLoadingHistory>>
              ELSE IF c.pc = "returned"
              THEN /\ results' = ConvertedResults(HistoryPage(store))
                   /\ isLoadingHistory' = FALSE
                   /\ UNCHANGED error
              ELSE /\ results' = <<>>
                   /\ error' = UnableToConnect
                   /\ isLoadingHistory' = FALSE
    /\ UNCHANGED <<clock, gw, store, nextId, isLoading, hc, submits, loads, api, cp>>

\* the retry delay of the fetch has elapsed
LH_FetchDelayElapsed ==
    /\ lh.pc = "waiting"
    /\ lh' = AfterDelay(lh)
    /\ UNCHANGED <<clock, gw, store, nextId, results, isLoading, error, isLoadingHistory,
                   hc, submits, loads, api, cp>>

QueryErrors == { NoError, PermissionDenied, FetchFailure }

Next ==
    \/ \E productName \in ProductNames : HC_Submit(productName)
    \/ \E message \in ApiFailures : HC_CompletionFailed(message)
    \/ \E response \in Completions : HC_CompletionArrived(response)
    \/ \E outcome \in RequestOutcomes : HC_SaveAttempt(outcome)
    \/ HC_SaveDelayElapsed
    \/ LH_Refresh
    \/ \E storeError \in QueryErrors : LH_FetchAttempt(storeError)
    \/ LH_FetchDelayElapsed

Spec == Init /\ [][Next]_vars

-----------------------------------------------------------------------------
(* classifyProduct on its own, over a family of completion texts *)

\* the order in which the prompt lists the members
Rank(k) ==
    CASE k = "hsCode" -> 1 [] k = "chapter" -> 2 [] k = "description" -> 3
      [] k = "confidence" -> 4 [] OTHER -> 5

\* member lists of up to MaxFields members in the prompt's order, repeated
\* keys included
MemberLists ==
    { m \in UNION { [1..n -> FieldTokens] : n \in 0..MaxFields } :
        \A i \in 1..(Len(m) - 1) : Rank(m[i].k) <= Rank(m[i + 1].k) }

\* what surrounds the members: nothing, the object's braces, prose around
\* them, or braces that do not belong to the object
Before == { <<>>, <<LBrace>>, <<Prose, LBrace>>, <<RBrace, LBrace>> }
After == { <<>>, <<RBrace>>, <<RBrace, Prose>>, <<RBrace, RBrace>>,
           <<Prose, RBrace>> }

Texts == { b \o m \o a : b \in Before, m \in MemberLists, a \in After }

InitParse ==
    /\ store = <<ExistingRow>>
    /\ nextId = 1
    /\ results = <<>>
    /\ isLoading = FALSE
    /\ error = NoError
    /\ isLoadingHistory = TRUE
    /\ hc = Idle
    /\ lh = NewCall("getClassifications")
    /\ submits = 0
    /\ loads = 0
    /\ api \in { ApiAnswered(t) : t \in Texts } \cup { ApiFailed(m) : m \in ApiFailures }
    /\ cp = NotCalled
    /\ clock = 1
    /\ gw = NoGatewayCall

\* classifyProduct runs on the settled completion request
Classify ==
    /\ cp = NotCalled
    /\ cp' = ClassifyProduct(api)
    /\ UNCHANGED <<uiVars, api, clock, gw>>

NextParse == Classify

SpecParse == InitParse /\ [][NextParse]_vars

-----------------------------------------------------------------------------
(* The retry policy: C1, C2, C3 *)

\* the two calls wrapped in retryOperation that the flows make
WrappedCalls == { hc.call, lh }

Transient(storeError) == Includes(storeError, FailedToFetch)

\* C1: when the store reports to a wrapped call (saveClassification,
\* getClassifications) a failure that is not a transient network-fetch failure,
\* the call fails at once: one invocation, no retry delay, the error surfaced.
C1_NonTransientFailsAtOnce ==
    \A c \in WrappedCalls :
        (c.trace # <<>> /\ c.trace[1] # NoError /\ ~Transient(c.trace[1]))
            => /\ c.pc = "failed"
               /\ c.attempts = 1
               /\ c.waited = <<>>
               /\ c.thrown = OperationError(c.op, c.trace[1])

\* C2: a wrapped call whose operation fails twice with a transient
\* network-fetch error and succeeds on its third invocation returns after
\* exactly two retries, having waited 1000 ms and then 1500 ms.
C2_TwoRetriesThenSuccess ==
    \A c \in WrappedCalls :
        (Len(c.trace) = 3 /\ Transient(c.trace[1]) /\ Transient(c.trace[2])
           /\ c.trace[3] = NoError)
            => /\ c.pc = "returned"
               /\ c.attempts = 3
               /\ c.retries = 0
               /\ c.waited = <<1000, 1500>>
               /\ c.thrown = NoError
               /\ (c.op = "saveClassification" => hc.outcome = "saved")

C2_Witness ==
    /\ hc.call.trace = <<FetchFailure, FetchFailure, NoError>>
    /\ hc.outcome = "saved"
    /\ lh.trace = <<FetchFailure, FetchFailure, NoError>>

\* C3: a wrapped call invokes its operation at most 3 times whatever the
\* failures are, and when all three attempts fail with a transient error it
\* ends by surfacing the last error.
C3_AtMostThreeAttempts ==
    \A c \in WrappedCalls :
        /\ c.attempts <= 3
        /\ Len(c.waited) <= 2
        /\ (c.attempts = 3 /\ \A i \in 1..3 : Transient(c.trace[i]))
              => /\ c.pc = "failed"
                 /\ c.thrown = OperationError(c.op, c.trace[3])

C3_Witness ==
    /\ hc.call.pc = "failed"
    /\ hc.call.trace = <<FetchFailure, FetchFailure, FetchFailure>>
    /\ hc.call.thrown = SaveFailedPrefix \o FetchFailure

-----------------------------------------------------------------------------
(* Create and the classification flow: C4, C5, C6 *)

\* C4: a saveClassification call that returns success has inserted exactly one
\* record, also when it was retried after transient failures whose insert
\* requests the store had already applied.
C4_SavedExactlyOnce ==
    hc.outcome = "saved" => hc.inserted = 1

\* the step in which handleClassification ends after a failed save
SaveFailedStep ==
    hc.pc = "saving" /\ hc'.pc = "idle" /\ hc'.outcome = "save_failed"

\* C5: when classification succeeds and the save fails (non-transient error,
\* or retries exhausted), handleClassification still puts the result at the
\* head of the displayed list, the entries shown before following unchanged.
C5_ResultShownAfterFailedSave ==
    [][SaveFailedStep =>
          /\ results' # <<>>
          /\ Head(results') = hc.result
          /\ Tail(results') = results]_vars

C5_Witness ==
    /\ hc.outcome = "save_failed"
    /\ hc.call.attempts = 3
    /\ Len(results) = 3
    /\ results[1] = hc.result

\* the steps in which a flow learns of a failure
ClassifyFailedStep ==
    hc.pc = "classifying" /\ hc'.outcome = "classify_failed"

LoadFailedStep ==
    lh.pc = "attempting" /\ lh'.pc = "failed"

\* C6: every failure of the classification pipeline or of the persistence
\* gateway inside a UI flow puts a human-readable error message into UI state.
C6_EveryFailureShown ==
    [][(ClassifyFailedStep \/ SaveFailedStep \/ LoadFailedStep)
          => error' # NoError]_vars

-----------------------------------------------------------------------------
(* classifyProduct: C7, C8, C9, C10 *)

Called == cp # NotCalled /\ ~api.failed

\* the well-formed JSON objects of a text: a '{', members only, a '}'
ObjectsIn(t) ==
    { p \in (DOMAIN t) \X (DOMAIN t) :
        /\ p[1] < p[2]
        /\ t[p[1]] = LBrace
        /\ t[p[2]] = RBrace
        /\ \A k \in (p[1] + 1)..(p[2] - 1) : t[k].k \in Keys }

\* member k is the one that gives its key its value in object p
Decides(t, p, k) ==
    /\ k \in (p[1] + 1)..(p[2] - 1)
    /\ \A l \in (k + 1)..(p[2] - 1) : t[l].k # t[k].k

RequiredKeys == { "hsCode", "chapter", "description" }

HasRequired(t, p) ==
    \A key \in RequiredKeys :
        \E k \in (p[1] + 1)..(p[2] - 1) :
            Decides(t, p, k) /\ t[k].k = key /\ t[k].s # ""

\* classifyProduct returned object p of t, every value as parsed
ReturnedAsParsed(t, p) ==
    /\ cp.ok
    /\ \A k \in (p[1] + 1)..(p[2] - 1) :
          Decides(t, p, k) =>
              /\ t[k].k = "hsCode" => cp.value.hsCode = t[k].s
              /\ t[k].k = "chapter" => cp.value.chapter = t[k].s
              /\ t[k].k = "description" => cp.value.description = t[k].s
              /\ t[k].k = "confidence" => cp.value.confidence = t[k].n

\* C7 as stated: for any completion text that contains a single well-formed
\* JSON object with non-empty hsCode, chapter and description, classifyProduct
\* returns a record with those values and the parsed confidence, unchanged.
C7_SingleObjectReturned ==
    Called =>
        \A p \in ObjectsIn(api.text) :
            (ObjectsIn(api.text) = {p} /\ HasRequired(api.text, p))
                => ReturnedAsParsed(api.text, p)

\* no '{' before the object and no '}' after it
SpansText(t, p) ==
    /\ \A k \in 1..(p[1] - 1) : t[k] # LBrace
    /\ \A k \in (p[2] + 1)..Len(t) : t[k] # RBrace

\* C7 as amended: for any completion text whose span from its first '{' to
\* its last '}' is a well-formed JSON object with non-empty hsCode, chapter
\* and description, classifyProduct returns a record with those values and
\* the parsed confidence, unchanged.
C7_SpanObjectReturned ==
    Called =>
        \A p \in ObjectsIn(api.text) :
            (SpansText(api.text, p) /\ HasRequired(api.text, p))
                => ReturnedAsParsed(api.text, p)

C7_Witness ==
    /\ Called
    /\ cp.ok
    /\ Head(api.text) = Prose
    /\ cp.value.hsCode = "8471.30.01"
    /\ cp.value.confidence = 150

\* The kind of an error, by the throw statement that made it: the catch
\* block's `Classification failed: ...` (ClassificationFailed), 'Invalid JSON
\* response from OpenAI' (MalformedResponse), 'Incomplete classification data
\* from OpenAI' (IncompleteClassification).
ErrorKind(message) ==
    IF SubSeq(message, 1, Len(ClassificationFailedPrefix)) = ClassificationFailedPrefix
    THEN "ClassificationFailed"
    ELSE IF message = InvalidJSON THEN "MalformedResponse"
    ELSE IF message = IncompleteData THEN "IncompleteClassification"
    ELSE "Other"

NoBracePair(t) ==
    ~\E i, j \in DOMAIN t : i < j /\ t[i] = LBrace /\ t[j] = RBrace

\* the span from the first '{' to the last '}' holds something that is no member
SpanDoesNotParse(t) ==
    \E i, j \in DOMAIN t :
        /\ i < j /\ t[i] = LBrace /\ t[j] = RBrace
        /\ SpansText(t, <<i, j>>)
        /\ \E k \in (i + 1)..(j - 1) : t[k].k \notin Keys

\* C8: for any completion text with no '{' followed later by a '}', and for
\* any text whose span from the first '{' to the last '}' does not parse,
\* classifyProduct fails and the caller receives a MalformedResponse error.
\* (Stated for the texts that are not empty: an empty completion is reported
\* as 'No response from OpenAI'.)
C8_MalformedResponse ==
    (Called /\ api.text # <<>>
       /\ (NoBracePair(api.text) \/ SpanDoesNotParse(api.text)))
        => (~cp.ok /\ ErrorKind(cp.message) = "MalformedResponse")

\* the span parses to an object in which a required key is absent or ''
SpanIncomplete(t) ==
    \E p \in ObjectsIn(t) : SpansText(t, p) /\ ~HasRequired(t, p)

\* C9: for any parsed completion object in which hsCode, chapter or
\* description is absent or the empty string, classifyProduct returns no
\* record and the caller receives an IncompleteClassification error.
C9_IncompleteClassification ==
    (Called /\ SpanIncomplete(api.text))
        => (~cp.ok /\ ErrorKind(cp.message) = "IncompleteClassification")

-----------------------------------------------------------------------------
(* Calls made on their own: where a call looks inside a text (substring,   *)
(* split, a regular expression, ilike), the text is a sequence of          *)
(* characters.                                                             *)

\* the state of App in which nothing is running
AtRest ==
    /\ results = <<>>
    /\ isLoading = FALSE
    /\ error = NoError
    /\ isLoadingHistory = FALSE
    /\ hc = Idle
    /\ lh = NoCall
    /\ submits = 0
    /\ loads = 0
    /\ api = Pending
    /\ cp = NotCalled

\* String.prototype.substring(start, end) for 0 <= start <= end
Substring(text, start, end) == SubSeq(text, start + 1, Min(end, Len(text)))

-----------------------------------------------------------------------------
(* generateWTOLink *)

MaxCalls == 2

ChapterUrl == "https://www.foreign-trade.com/reference/hscode.cfm?code="
SearchUrl == "https://www.tariffnumber.com/2022/"

\* `${url}${code}`
Url(url, code) == <<url>> \o code

GenerateWTOLink(hsCode) ==
    LET baseCode == Substring(hsCode, 0, 6)
        chapter == Substring(hsCode, 0, 2)
    IN  [ wto |-> <<"https://www.wto.org/english/res_e/booksp_e/tariff_profiles_e.htm">>,
          wcoomic |-> <<"https://www.wcoomd.org/en/topics/nomenclature/instrument-and-tools/hs-nomenclature-2022-edition/hs-nomenclature-2022-edition.aspx">>,
          chapter |-> Url(ChapterUrl, chapter),
          detailed |-> <<"https://hts.usitc.gov/current">>,
          search |-> Url(SearchUrl, baseCode) ]

\* the HS code "8471.30.01"
Laptops == <<"8", "4", "7", "1", ".", "3", "0", ".", "0", "1">>

\* generateWTOLink is about to be called with an HS code of the form
\* NNNN.NN.NN
InitLinks ==
    LET digits == { "0", "1", "3" }
        hsCodes ==
            { <<a, b, c, d, ".", e, f, ".", g, h>> :
                a \in digits, b \in digits, c \in digits, d \in digits,
                e \in digits, f \in digits, g \in digits, h \in digits }
            \cup { Laptops }
    IN  /\ AtRest
        /\ store = <<ExistingRow>>
        /\ nextId = 1
        /\ clock = 1
        /\ \E hsCode \in hsCodes :
             gw = [NoGatewayCall EXCEPT !.op = "generateWTOLink", !.arg = hsCode]

\* one more call of generateWTOLink with the same code
GenerateLinks ==
    /\ gw.op = "generateWTOLink"
    /\ Len(gw.ret) < MaxCalls
    /\ gw' = [gw EXCEPT !.ret = Append(@, GenerateWTOLink(gw.arg))]
    /\ UNCHANGED <<uiVars, api, cp, clock>>

SpecLinks == InitLinks /\ [][GenerateLinks]_vars

\* the digits of a code, in order
DigitsOf(hsCode) == SelectSeq(hsCode, LAMBDA c : c # ".")

\* C11: for an HS code NNNN.NN.NN, every call of generateWTOLink returns the
\* same links, the chapter link references the code's first two digits and
\* the code-search link references the six-digit root made of the code's
\* first six digits.
C11_LinksReferenceChapterAndRoot ==
    \A i \in DOMAIN gw.ret :
        /\ gw.ret[i] = gw.ret[1]
        /\ gw.ret[i].chapter = Url(ChapterUrl, SubSeq(DigitsOf(gw.arg), 1, 2))
        /\ gw.ret[i].search = Url(SearchUrl, SubSeq(DigitsOf(gw.arg), 1, 6))

-----------------------------------------------------------------------------
(* getClassifications: the search filter it builds *)

MaxTermLen == 4

IsDigit(c) == c \in { "0", "1", "2", "3", "4", "5", "6", "7", "8", "9" }

\* white space as String.prototype.trim knows it, among the characters used
WhiteSpace == { " ", "\n", "\t" }

\* text without the white space at its start
RECURSIVE TrimStart(_)
TrimStart(text) ==
    IF text # <<>> /\ Head(text) \in WhiteSpace THEN TrimStart(Tail(text)) ELSE text

\* a trim that leaves the text as it is
TrimNothing(text) == text

\* String.prototype.trim
Trim(text) == Reverse(TrimStart(Reverse(TrimStart(text))))

\* the same test without the closing $
MatchesHsCodePrefix(text) ==
    Len(text) >= 4 /\ \A i \in 1..4 : IsDigit(text[i])

\* searchTerm.match(/^\d{4}(\.\d{2}(\.\d{2})?)?$/)
MatchesHsCode(text) ==
    LET \* \d{n} at position from (1-based) of text
        DigitsAt(from, n) ==
            /\ from + n - 1 <= Len(text)
            /\ \A i \in from..(from + n - 1) : IsDigit(text[i])
        DotAt(i) == i <= Len(text) /\ text[i] = "."
    IN  /\ DigitsAt(1, 4)
        /\ \/ Len(text) = 4
           \/ /\ DotAt(5)
              /\ DigitsAt(6, 2)
              /\ \/ Len(text) = 7
                 \/ /\ DotAt(8)
                    /\ DigitsAt(9, 2)
                    /\ Len(text) = 10

\* no searchTerm: the query keeps every row
NoFilter == [columns |-> {}, term |-> <<>>]

\* if (options?.searchTerm) { ... }: the columns on which the query asks
\* ilike '%term%', any one of them matching being enough
SearchFilter(searchTerm) ==
    IF searchTerm = <<>> THEN NoFilter
    ELSE LET term == Trim(searchTerm)
         IN  IF MatchesHsCode(term)
             THEN [columns |-> { "hs_code" }, term |-> term]
             ELSE [columns |-> { "product_name", "customer_name", "hs_code" },
                   term |-> term]

\* getClassifications is about to build the filter for a search term: any
\* text of up to MaxTermLen characters, or one of the three shapes of an HS
\* code (or "router") with one character changed, dropped or added, with or
\* without blanks around it
InitSearch ==
    LET chars == { "8", ".", "r", " " }
        Near(text) ==
            { text }
            \cup { [text EXCEPT ![i] = c] : i \in DOMAIN text, c \in chars }
            \cup { SubSeq(text, 1, i - 1) \o SubSeq(text, i + 1, Len(text)) :
                     i \in DOMAIN text }
            \cup { text \o <<c>> : c \in chars }
            \cup { <<c>> \o text : c \in chars }
        blanks == { <<>>, <<" ">> }
        searchTerms ==
            UNION { [1..n -> chars] : n \in 0..MaxTermLen }
            \cup { b \o t \o a :
                     b \in blanks, a \in blanks,
                     t \in Near(SubSeq(Laptops, 1, 4)) \cup Near(SubSeq(Laptops, 1, 7))
                           \cup Near(Laptops) \cup { <<"r", "o", "u", "t", "e", "r">> } }
    IN  /\ AtRest
        /\ store = <<ExistingRow>>
        /\ nextId = 1
        /\ clock = 1
        /\ \E searchTerm \in searchTerms :
             gw = [NoGatewayCall EXCEPT !.op = "searchFilter", !.arg = searchTerm]

\* getClassifications builds the filter for options.searchTerm
BuildSearchFilter ==
    /\ gw.op = "searchFilter"
    /\ gw.ret = <<>>
    /\ gw' = [gw EXCEPT !.ret = <<SearchFilter(gw.arg)>>]
    /\ UNCHANGED <<uiVars, api, cp, clock>>

SpecSearch == InitSearch /\ [][BuildSearchFilter]_vars

\* four digits, optionally followed by .NN, optionally followed by another .NN
HsCodeShapes == { <<1, 2, 3, 4>>, <<1, 2, 3, 4, 0, 6, 7>>,
                  <<1, 2, 3, 4, 0, 6, 7, 0, 9, 10>> }
HasHsCodeShape(text) ==
    \E shape \in HsCodeShapes :
        /\ Len(text) = Len(shape)
        /\ \A i \in DOMAIN text :
             IF shape[i] = 0 THEN text[i] = "." ELSE IsDigit(text[i])

\* C12: for a search term that is given, the filter is the substring match of
\* the trimmed term on the HS code alone when the trimmed term has the shape
\* of an HS code, and otherwise the OR of the substring matches on product
\* name, customer name and HS code; never both.
C12_SearchRoute ==
    (gw.op = "searchFilter" /\ gw.ret # <<>> /\ gw.arg # <<>>)
        => /\ gw.ret[1].term = Trim(gw.arg)
           /\ HasHsCodeShape(Trim(gw.arg)) => gw.ret[1].columns = { "hs_code" }
           /\ ~HasHsCodeShape(Trim(gw.arg))
                => gw.ret[1].columns = { "product_name", "customer_name", "hs_code" }

\* " 8471.30 " was sent to the HS code alone
C12_Witness ==
    /\ gw.op = "searchFilter"
    /\ gw.arg = <<" ", "8", "4", "7", "1", ".", "3", "0", " ">>
    /\ gw.ret = << [columns |-> { "hs_code" },
                    term |-> <<"8", "4", "7", "1", ".", "3", "0">>] >>

-----------------------------------------------------------------------------
(* getStatistics *)

MaxStatRows == 6

TopChapters == 5

StatisticsFailedPrefix == <<"Failed", "to", "fetch", "statistics:">>

Separator == <<" ", "-", " ">>

\* s.chapter.split(' - ')[0]
RECURSIVE BeforeSeparator(_)
BeforeSeparator(text) ==
    IF Len(text) < Len(Separator) THEN text
    ELSE IF SubSeq(text, 1, Len(Separator)) = Separator THEN <<>>
    ELSE <<Head(text)>> \o BeforeSeparator(Tail(text))

\* the number a key of digits stands for
RECURSIVE NumberOf(_)
NumberOf(key) ==
    LET DigitValue(c) ==
            CASE c = "0" -> 0 [] c = "1" -> 1 [] c = "2" -> 2 [] c = "3" -> 3
              [] c = "4" -> 4 [] c = "5" -> 5 [] c = "6" -> 6 [] c = "7" -> 7
              [] c = "8" -> 8 [] OTHER -> 9
    IN  IF key = <<>> THEN 0
        ELSE 10 * NumberOf(SubSeq(key, 1, Len(key) - 1)) + DigitValue(key[Len(key)])

\* keys in ascending order of their numbers
RECURSIVE Ascending(_)
Ascending(keys) ==
    IF keys = {} THEN <<>>
    ELSE LET least == CHOOSE k \in keys :
                          \A other \in keys : NumberOf(k) <= NumberOf(other)
         IN  <<least>> \o Ascending(keys \ { least })

\* the keys of chapterCounts in the order the reduce creates them
RECURSIVE Inserted(_)
Inserted(stats) ==
    IF stats = <<>> THEN <<>>
    ELSE LET before == Inserted(SubSeq(stats, 1, Len(stats) - 1))
             chapter == BeforeSeparator(stats[Len(stats)].chapter)
         IN  IF \E i \in DOMAIN before : before[i] = chapter THEN before
             ELSE Append(before, chapter)

\* Object.entries(chapterCounts).map(([chapter, count]) => ({ chapter, count })):
\* Object.entries lists the keys that are integer indices first, in ascending
\* order, and the other keys after them in insertion order
Entries(stats) ==
    LET keys == Inserted(stats)
        IsIndex(key) ==
            /\ key # <<>>
            /\ \A i \in DOMAIN key : IsDigit(key[i])
            /\ (Len(key) > 1 => key[1] # "0")
        \* acc[chapter] = (acc[chapter] || 0) + 1
        Count(chapter) ==
            Cardinality({ i \in DOMAIN stats :
                            BeforeSeparator(stats[i].chapter) = chapter })
        ordered == Ascending({ keys[i] : i \in { j \in DOMAIN keys : IsIndex(keys[j]) } })
                   \o SelectSeq(keys, LAMBDA k : ~IsIndex(k))
    IN  [i \in DOMAIN ordered |-> [chapter |-> ordered[i], count |-> Count(ordered[i])]]

\* a sort that puts the smaller counts first
RECURSIVE SortedByCountAscending(_)
SortedByCountAscending(entries) ==
    IF entries = <<>> THEN <<>>
    ELSE LET rest == SortedByCountAscending(SubSeq(entries, 1, Len(entries) - 1))
             e == entries[Len(entries)]
             ahead == Cardinality({ i \in DOMAIN rest : rest[i].count <= e.count })
         IN  SubSeq(rest, 1, ahead) \o <<e>> \o SubSeq(rest, ahead + 1, Len(rest))

\* .sort((a, b) => b.count - a.count): stable, the larger counts first
RECURSIVE SortedByCount(_)
SortedByCount(entries) ==
    IF entries = <<>> THEN <<>>
    ELSE LET rest == SortedByCount(SubSeq(entries, 1, Len(entries) - 1))
             e == entries[Len(entries)]
             ahead == Cardinality({ i \in DOMAIN rest : rest[i].count >= e.count })
         IN  SubSeq(rest, 1, ahead) \o <<e>> \o SubSeq(rest, ahead + 1, Len(rest))

RECURSIVE Sum(_)
Sum(numbers) ==
    IF numbers = <<>> THEN 0 ELSE Head(numbers) + Sum(Tail(numbers))

\* Math.round(sum / n) for sum >= 0 and n > 0: halves go up
RoundedQuotient(sum, n) == (2 * sum + n) \div (2 * n)

Statistics(stats) ==
    [ totalClassifications |-> Len(stats),
      dualUseCount |-> Len(SelectSeq(stats, LAMBDA r : r.is_dual_use)),
      averageConfidence |->
          IF Len(stats) > 0
          THEN RoundedQuotient(Sum([i \in DOMAIN stats |-> stats[i].confidence]),
                               Len(stats))
          ELSE 0,
      topChapters |-> Take(SortedByCount(Entries(stats)), TopChapters) ]

\* the kinds of record in the stores of this specification: six chapters,
\* one of them also with a second separator in its label, and a label
\* without separator
StatRecords ==
    LET Label(code, title) == code \o Separator \o title
        StatRecord(chapter, confidence, isDualUse) ==
            [ product_name |-> <<"p">>, customer_name |-> <<>>, hs_code |-> Laptops,
              chapter |-> chapter, description |-> <<"d">>,
              confidence |-> confidence, hasConfidence |-> TRUE,
              is_dual_use |-> isDualUse ]
    IN  << StatRecord(Label(<<"8", "4">>, <<"M">>), 80, FALSE),
           StatRecord(Label(<<"8", "4">>, <<"M">>), 90, TRUE),
           StatRecord(Label(<<"8", "4">>, <<"N">> \o Separator \o <<"b">>), 91, TRUE),
           StatRecord(Label(<<"8", "5">>, <<"E">>), 100, FALSE),
           StatRecord(Label(<<"7", "3">>, <<"S">>), 80, FALSE),
           StatRecord(Label(<<"3", "9">>, <<"P">>), 80, FALSE),
           StatRecord(Label(<<"9", "0">>, <<"O">>), 80, FALSE),
           StatRecord(Label(<<"6", "1">>, <<"A">>), 80, FALSE),
           StatRecord(<<"m", "i", "s", "c">>, 0, FALSE) >>

\* the lists of n kinds, kinds in nondecreasing order
RECURSIVE KindLists(_)
KindLists(n) ==
    IF n = 0 THEN { <<>> }
    ELSE { Append(l, k) : l \in KindLists(n - 1),
                          k \in DOMAIN StatRecords } \cap
         { l \in Seq(DOMAIN StatRecords) :
             \A i \in 1..(Len(l) - 1) : l[i] <= l[i + 1] }

\* getStatistics is about to be called on a store of up to MaxStatRows rows
InitStats ==
    /\ AtRest
    /\ store \in { [i \in DOMAIN l |-> Row(StoreId(i), StatRecords[l[i]], i)] :
                     l \in UNION { KindLists(n) : n \in 0..MaxStatRows } }
    /\ nextId = Len(store) + 1
    /\ clock = Len(store) + 1
    /\ gw = [NoGatewayCall EXCEPT !.op = "getStatistics"]

\* getStatistics, the store answering the select with storeError
GetStatistics(storeError) ==
    /\ gw.op = "getStatistics"
    /\ gw.ret = <<>> /\ gw.err = NoError
    /\ gw' = IF storeError # NoError
             THEN [gw EXCEPT !.err = StatisticsFailedPrefix \o storeError]
             ELSE [gw EXCEPT !.ret = <<Statistics(store)>>]
    /\ UNCHANGED <<uiVars, api, cp, clock>>

SpecStats == InitStats /\ [][\E storeError \in QueryErrors : GetStatistics(storeError)]_vars

\* the text before the first " - " of a label (the whole label when it has none)
IsBucketOf(bucket, label) ==
    LET at == { i \in 1..(Len(label) - 2) : SubSeq(label, i, i + 2) = <<" ", "-", " ">> }
    IN  IF at = {} THEN bucket = label
        ELSE \E i \in at : /\ \A j \in at : i <= j
                           /\ bucket = SubSeq(label, 1, i - 1)

Frequency(bucket) ==
    Cardinality({ i \in DOMAIN store : IsBucketOf(bucket, store[i].chapter) })

Prefixes(text) == { SubSeq(text, 1, n) : n \in 0..Len(text) }

Buckets ==
    { b \in UNION { Prefixes(store[i].chapter) : i \in DOMAIN store } :
        Frequency(b) > 0 }

-----------------------------------------------------------------------------
(* getClassifications: the query *)

MaxLimit == 2
MaxOffset == 2

DefaultPageSize == 50

\* an optional member of options: <<>> when absent, <<value>> when given
Given(option) == option # <<>>

\* a number that passes if (...): given and not 0
Truthy(option) == Given(option) /\ option[1] # 0

\* ilike compares without regard to case
Lower(c) ==
    CASE c = "A" -> "a" [] c = "C" -> "c" [] c = "M" -> "m" [] c = "E" -> "e"
      [] c = "R" -> "r" [] OTHER -> c

\* column ilike '%term%'
ILike(value, term) ==
    \E i \in 1..(Len(value) - Len(term) + 1) :
        \A j \in DOMAIN term : Lower(value[i + j - 1]) = Lower(term[j])

\* the search filter on a row: one of the filter's columns is not NULL and
\* matches
Satisfies(row, filter) ==
    \/ filter.columns = {}
    \/ "product_name" \in filter.columns /\ ILike(row.product_name, filter.term)
    \/ "hs_code" \in filter.columns /\ ILike(row.hs_code, filter.term)
    \/ /\ "customer_name" \in filter.columns
       /\ \E i \in DOMAIN row.customer_name : ILike(row.customer_name[i], filter.term)

\* the rows the query keeps: search filter, then .eq('is_dual_use', true)
Matching(rows, options) ==
    LET filter == IF Given(options.searchTerm) THEN SearchFilter(options.searchTerm[1])
                  ELSE NoFilter
    IN  SelectSeq(rows, LAMBDA row :
            /\ Satisfies(row, filter)
            /\ options.dualUseOnly = <<TRUE>> => row.is_dual_use)

\* a < b for two texts
RECURSIVE TextLess(_, _)
TextLess(a, b) ==
    LET order == <<" ", "0", "1", "4", "8", "a", "b", "c", "d", "e", "l", "m",
                   "o", "r", "s", "t", "u">>
        Place(c) == CHOOSE i \in DOMAIN order : order[i] = c
    IN  IF b = <<>> THEN FALSE
        ELSE IF a = <<>> THEN TRUE
        ELSE IF Head(a) # Head(b) THEN Place(Head(a)) < Place(Head(b))
        ELSE TextLess(Tail(a), Tail(b))

\* row a sorts strictly before row b under ORDER BY column ASC
Less(a, b, column) ==
    IF column = "product_name" THEN TextLess(a.product_name, b.product_name)
    ELSE IF column = "confidence" THEN a.confidence < b.confidence
    ELSE a.created_at < b.created_at

\* the arrangements of n things
Orderings(n) ==
    { p \in [1..n -> 1..n] : \A i \in 1..n : \A j \in 1..n : i # j => p[i] # p[j] }

\* .order(sortBy, { ascending: sortOrder === 'asc' }): the orders in which
\* the store may return the rows; ORDER BY leaves the order of rows with
\* equal keys open
Ordered(rows, column, sortOrder) ==
    { [i \in DOMAIN rows |-> rows[p[i]]] :
        p \in { q \in Orderings(Len(rows)) :
                  \A i \in 1..Len(rows) : \A j \in 1..Len(rows) :
                      i < j => IF sortOrder = "asc"
                               THEN ~Less(rows[q[j]], rows[q[i]], column)
                               ELSE ~Less(rows[q[i]], rows[q[j]], column) } }

\* if (options?.limit) query.limit(...); if (options?.offset) query.range(...):
\* range(from, to) asks for to - from + 1 rows from position from (0-based)
Page(ordered, options) ==
    IF Truthy(options.offset)
    THEN LET size == IF Truthy(options.limit) THEN options.limit[1] ELSE DefaultPageSize
         IN  SubSeq(ordered, options.offset[1] + 1,
                    Min(options.offset[1] + size, Len(ordered)))
    ELSE IF Truthy(options.limit) THEN Take(ordered, options.limit[1])
    ELSE ordered

\* what the query can return for rows: { data, count } with count: 'exact'
QueryResults(rows, options) ==
    LET sortBy == IF Given(options.sortBy) THEN options.sortBy[1] ELSE "created_at"
        sortOrder == IF Given(options.sortOrder) THEN options.sortOrder[1] ELSE "desc"
    IN  { [data |-> Page(ordered, options), count |-> Len(Matching(rows, options))] :
            ordered \in Ordered(Matching(rows, options), sortBy, sortOrder) }

\* records of the stores of this specification: two with the same
\* confidence, two with the same product name, one whose product name holds
\* the digits of an HS heading
QueryRecords ==
    LET QueryRecord(productName, customerName, hsCode, confidence, isDualUse) ==
            [ product_name |-> productName, customer_name |-> customerName,
              hs_code |-> hsCode, chapter |-> <<"8", "4", " ", "-", " ", "M">>,
              description |-> <<"d">>, confidence |-> confidence,
              hasConfidence |-> TRUE, is_dual_use |-> isDualUse ]
        router == <<"r", "o", "u", "t", "e", "r">>
        modems == <<"8", "5", "1", "7", ".", "6", "2", ".", "0", "0">>
    IN  << QueryRecord(router, << <<"A", "c", "m", "e">> >>, Laptops, 80, FALSE),
           QueryRecord(<<"m", "o", "d", "e", "m">>, <<>>, modems, 80, TRUE),
           QueryRecord(router, <<>>, modems, 95, TRUE),
           QueryRecord(<<"b", "o", "l", "t", " ", "8", "4", "7", "1">>, <<>>,
                       <<"7", "3", "1", "8", ".", "1", "5", ".", "0", "0">>, 60, FALSE) >>

\* the sequences that keep some of the elements of s, in their order
RECURSIVE SubSequences(_)
SubSequences(s) ==
    IF s = <<>> THEN { <<>> }
    ELSE LET rest == SubSequences(Tail(s))
         IN  rest \cup { <<Head(s)>> \o t : t \in rest }

\* the option bundles callers pass
QueryOptions ==
    LET Optional(values) == { <<>> } \cup { <<v>> : v \in values }
        terms == { <<"8", "4", "7", "1">>, <<"8", "4">>, <<"a", "c", "m", "e">>,
                   <<" ", "R", " ">>, <<" ">> }
    IN  [ limit : Optional(0..MaxLimit),
          offset : Optional(0..MaxOffset),
          searchTerm : Optional(terms),
          dualUseOnly : Optional({ TRUE }),
          sortBy : Optional({ "confidence", "product_name" }),
          sortOrder : Optional({ "asc" }) ]

\* getClassifications is about to be called with options on some store
InitQuery ==
    /\ AtRest
    /\ store \in { [i \in DOMAIN records |-> Row(StoreId(i), records[i], i)] :
                     records \in SubSequences(QueryRecords) }
    /\ nextId = Len(store) + 1
    /\ clock = Len(store) + 1
    /\ \E options \in QueryOptions :
         gw = [NoGatewayCall EXCEPT !.op = "getClassifications", !.arg = options]

\* one run of the operation getClassifications hands to retryOperation, the
\* store answering with result
QueryAnswered(result) ==
    /\ gw.op = "getClassifications"
    /\ gw.err = NoError
    /\ Len(gw.ret) < MaxCalls
    /\ gw' = [gw EXCEPT !.ret = Append(@, result)]
    /\ UNCHANGED <<uiVars, api, cp, clock>>

\* the same, the store reporting storeError
QueryFailed(storeError) ==
    /\ gw.op = "getClassifications"
    /\ gw.err = NoError
    /\ Len(gw.ret) < MaxCalls
    /\ gw' = [gw EXCEPT !.err = OperationError("getClassifications", storeError)]
    /\ UNCHANGED <<uiVars, api, cp, clock>>

NextQuery ==
    \/ \E result \in QueryResults(store, gw.arg) : QueryAnswered(result)
    \/ \E storeError \in QueryErrors \ { NoError } : QueryFailed(storeError)

SpecQuery == InitQuery /\ [][NextQuery]_vars

\* text holds part, letter case aside
Holds(text, part) ==
    \E before \in Prefixes(text) :
        LET n == Len(before)
        IN  /\ n + Len(part) <= Len(text)
            /\ \A i \in DOMAIN part : Lower(text[n + i]) = Lower(part[i])

\* the record satisfies the search-term filter and the dual-use filter
Wanted(row, options) ==
    /\ Given(options.searchTerm) /\ options.searchTerm[1] # <<>> =>
         LET term == Trim(options.searchTerm[1])
         IN  IF HasHsCodeShape(term) THEN Holds(row.hs_code, term)
             ELSE \/ Holds(row.product_name, term)
                  \/ Holds(row.hs_code, term)
                  \/ \E i \in DOMAIN row.customer_name : Holds(row.customer_name[i], term)
    /\ options.dualUseOnly = <<TRUE>> => row.is_dual_use

\* a comes no later than b in the requested order
NoLater(a, b, options) ==
    LET column == IF Given(options.sortBy) THEN options.sortBy[1] ELSE "created_at"
        ascending == options.sortOrder = <<"asc">>
        first == IF ascending THEN a ELSE b
        second == IF ascending THEN b ELSE a
    IN  CASE column = "confidence" -> first.confidence <= second.confidence
          [] column = "product_name" -> ~TextLess(second.product_name, first.product_name)
          [] OTHER -> first.created_at <= second.created_at

\* the orderings of all wanted records of the store in the requested order
Listings(options) ==
    LET wanted == SelectSeq(store, LAMBDA row : Wanted(row, options))
    IN  { [i \in DOMAIN wanted |-> wanted[p[i]]] :
            p \in { q \in Orderings(Len(wanted)) :
                      \A i \in DOMAIN wanted : \A j \in DOMAIN wanted :
                          i < j => NoLater(wanted[q[i]], wanted[q[j]], options) } }

\* the elements of listing at positions from..(from + n - 1), counted from 0
Positions(listing, from, n) ==
    SubSeq(listing, from + 1, Min(from + n, Len(listing)))

\* C14: what getClassifications returns for options with a limit: as data the
\* records that satisfy the search-term filter and, with dualUseOnly, the
\* dual-use filter, in the order of sortBy/sortOrder (creation time
\* descending by default), positions offset..offset+limit-1 of it (offset 0
\* when none is given); as count the number of all such records.
C14_MatchingPage ==
    (gw.op = "getClassifications" /\ Given(gw.arg.limit))
        => \A k \in DOMAIN gw.ret :
             /\ gw.ret[k].count =
                  Cardinality({ i \in DOMAIN store : Wanted(store[i], gw.arg) })
             /\ \E listing \in Listings(gw.arg) :
                  gw.ret[k].data =
                      Positions(listing,
                                IF Given(gw.arg.offset) THEN gw.arg.offset[1] ELSE 0,
                                gw.arg.limit[1])

\* C15: two calls of getClassifications with the same options, the store not
\* changed between them, return the same page and the same count.
C15_SamePageTwice ==
    gw.op = "getClassifications"
        => \A k \in DOMAIN gw.ret : gw.ret[k] = gw.ret[1]

-----------------------------------------------------------------------------
(* saveClassification, getClassificationById, updateClassification and     *)
(* deleteClassification against the table                                  *)

MaxRows == 2
MaxClock == 4

\* what .single() reports when the request returns no row
NoRows == <<"JSON", "object", "requested,", "multiple", "(or", "no)", "rows", "returned">>

\* error.code of a store error
ErrorCode(message) ==
    IF message = NoRows THEN "PGRST116"
    ELSE IF message = PermissionDenied THEN "42501"
    ELSE IF message = CheckViolation THEN "23514"
    ELSE IF message = NotNullViolation THEN "23502"
    ELSE ""

FetchOneFailedPrefix == <<"Failed", "to", "fetch", "classification:">>
UpdateFailedPrefix == <<"Failed", "to", "update", "classification:">>
DeleteFailedPrefix == <<"Failed", "to", "delete", "classification:">>

\* .eq('id', id)
WithId(rows, id) == SelectSeq(rows, LAMBDA row : row.id = id)

\* .single(): the row when the request returns exactly one
Single(rows, storeError) ==
    IF storeError # NoError THEN [error |-> storeError, data |-> <<>>]
    ELSE IF Len(rows) = 1 THEN [error |-> NoError, data |-> rows]
    ELSE [error |-> NoRows, data |-> <<>>]

\* a getClassificationById that takes every error for "not found"
GetByIdNullOnError(rows, id, storeError) ==
    LET reply == Single(WithId(rows, id), storeError)
    IN  IF reply.error # NoError THEN [ret |-> << <<>> >>, err |-> NoError]
        ELSE [ret |-> <<reply.data>>, err |-> NoError]

\* getClassificationById: ret holds what it returns, <<>> for null and
\* <<row>> for a record; err what it throws
GetById(rows, id, storeError) ==
    LET reply == Single(WithId(rows, id), storeError)
    IN  IF reply.error # NoError
        THEN IF ErrorCode(reply.error) = "PGRST116"
             THEN [ret |-> << <<>> >>, err |-> NoError]
             ELSE [ret |-> <<>>, err |-> FetchOneFailedPrefix \o reply.error]
        ELSE [ret |-> <<reply.data>>, err |-> NoError]

\* the row with the columns of updates set, before the trigger
Assigned(row, updates) ==
    [column \in DOMAIN row |->
        IF column \in DOMAIN updates THEN updates[column] ELSE row[column]]

\* a trigger that leaves updated_at alone
TouchedNever(row, now) == row

\* BEFORE UPDATE ... FOR EACH ROW: NEW.updated_at = now()
Touched(row, now) == [row EXCEPT !.updated_at = now]

\* the table after UPDATE ... WHERE id = id at time now
Updated(rows, id, updates, now) ==
    [i \in DOMAIN rows |->
        IF rows[i].id = id THEN Touched(Assigned(rows[i], updates), now)
        ELSE rows[i]]

\* the error of the UPDATE itself
UpdateError(rows, id, updates, outcome) ==
    IF outcome.message # NoError THEN outcome.message
    ELSE IF \E i \in DOMAIN rows :
              /\ rows[i].id = id
              /\ ConstraintError([confidence |-> Assigned(rows[i], updates).confidence,
                                  hasConfidence |-> TRUE]) # NoError
    THEN CheckViolation
    ELSE NoError

\* a delete that reports an id without row as an error
DeleteErrorWhenMissing(rows, id, outcome) ==
    IF outcome.message # NoError THEN outcome.message
    ELSE IF WithId(rows, id) = <<>> THEN NoRows
    ELSE NoError

\* the error of the DELETE: none when it removes no row
DeleteError(rows, id, outcome) == outcome.message

\* no policy FOR DELETE on a table with row level security: a delete sees
\* no row
DeletePolicy(row) == FALSE

\* the table after DELETE ... WHERE id = id
Deleted(rows, id) == SelectSeq(rows, LAMBDA row : ~(row.id = id /\ DeletePolicy(row)))

\* the records callers save: confidences in and out of range, and a record
\* with an empty HS code
SaveRecords ==
    { [QueryRecords[1] EXCEPT !.confidence = c] : c \in { -1, 100, 101 } }
    \cup { [QueryRecords[1] EXCEPT !.hs_code = <<>>] }

\* the partial field sets callers pass to updateClassification
UpdateSets ==
    { [confidence |-> 0], [confidence |-> 101],
      [chapter |-> <<>>, description |-> <<>>],
      [product_name |-> <<"m", "o", "d", "e", "m">>, is_dual_use |-> TRUE] }

\* the ids callers pass: those of the rows there can be, and one of no row
Ids == { StoreId(n) : n \in 1..MaxRows } \cup { StoreId(0) }

\* the store answers the request, or refuses it
StoreOutcomes == { Answered, Refused }

\* the table is empty or holds one row
InitCrud ==
    /\ AtRest
    /\ store \in { <<>>, <<Row(StoreId(1), QueryRecords[1], 1)>> }
    /\ nextId = Len(store) + 1
    /\ clock = Len(store) + 1
    /\ gw = NoGatewayCall

\* saveClassification(rec): with these outcomes retryOperation runs the
\* operation once
SaveClassification(rec, outcome) ==
    LET applied == InsertApplied(rec, outcome)
        c == AfterAttempt(NewCall("saveClassification"), InsertError(rec, outcome))
        row == Row(StoreId(nextId), rec, clock)
    IN  /\ applied => (Len(store) < MaxRows /\ clock < MaxClock)
        /\ c.pc \in { "returned", "failed" }
        /\ store' = IF applied THEN Append(store, row) ELSE store
        /\ nextId' = IF applied THEN nextId + 1 ELSE nextId
        /\ clock' = IF applied THEN clock + 1 ELSE clock
        /\ gw' = [ op |-> "saveClassification",
                   arg |-> [id |-> StoreId(0), record |-> rec,
                            storeError |-> outcome.message],
                   ret |-> IF c.pc = "returned" THEN <<row>> ELSE <<>>,
                   err |-> c.thrown ]
        /\ UNCHANGED appVars

\* getClassificationById(id), the store answering the select with storeError
GetClassificationById(id, storeError) ==
    LET r == GetById(store, id, storeError)
    IN  /\ gw' = [ op |-> "getClassificationById",
                   arg |-> [id |-> id, record |-> <<>>, storeError |-> storeError],
                   ret |-> r.ret, err |-> r.err ]
        /\ UNCHANGED <<appVars, store, nextId, clock>>

\* updateClassification(id, updates)
UpdateClassification(id, updates, outcome) ==
    LET error1 == UpdateError(store, id, updates, outcome)
        applied == outcome.applied /\ error1 = NoError /\ WithId(store, id) # <<>>
        after == IF applied THEN Updated(store, id, updates, clock) ELSE store
        reply == Single(WithId(after, id), error1)
    IN  /\ applied => clock < MaxClock
        /\ store' = after
        /\ clock' = IF applied THEN clock + 1 ELSE clock
        /\ gw' = [ op |-> "updateClassification",
                   arg |-> [id |-> id, record |-> updates,
                            storeError |-> outcome.message],
                   ret |-> reply.data,
                   err |-> IF reply.error # NoError
                           THEN UpdateFailedPrefix \o reply.error ELSE NoError ]
        /\ UNCHANGED <<appVars, nextId>>

\* deleteClassification(id)
DeleteClassification(id, outcome) ==
    LET error1 == DeleteError(store, id, outcome)
        applied == outcome.applied /\ error1 = NoError
    IN  /\ store' = IF applied THEN Deleted(store, id) ELSE store
        /\ gw' = [ op |-> "deleteClassification",
                   arg |-> [id |-> id, record |-> <<>>,
                            storeError |-> outcome.message],
                   ret |-> <<>>,
                   err |-> IF error1 # NoError
                           THEN DeleteFailedPrefix \o error1 ELSE NoError ]
        /\ UNCHANGED <<appVars, nextId, clock>>

NextCrud ==
    \/ \E rec \in SaveRecords, outcome \in StoreOutcomes :
         SaveClassification(rec, outcome)
    \/ \E id \in Ids, storeError \in QueryErrors : GetClassificationById(id, storeError)
    \/ \E id \in Ids, updates \in UpdateSets, outcome \in StoreOutcomes :
         UpdateClassification(id, updates, outcome)
    \/ \E id \in Ids, outcome \in StoreOutcomes : DeleteClassification(id, outcome)

SpecCrud == InitCrud /\ [][NextCrud]_vars

\* the rows of the store with identifier id
Records(id) == { i \in DOMAIN store : store[i].id = id }

\* C16: getClassificationById returns the record when one with that id
\* exists and null, raising nothing, when none exists; when the store fails
\* in any other way it raises an error that names the operation and carries
\* the store's message, and returns nothing.
C16_FoundNullOrError ==
    gw.op = "getClassificationById"
        => IF gw.arg.storeError # NoError
           THEN /\ gw.ret = <<>>
                /\ Includes(gw.err, <<"fetch", "classification:">>)
                /\ Includes(gw.err, gw.arg.storeError)
           ELSE /\ gw.err = NoError
                /\ Records(gw.arg.id) # {}
                     => \E i \in Records(gw.arg.id) : gw.ret = << <<store[i]>> >>
                /\ Records(gw.arg.id) = {} => gw.ret = << <<>> >>

\* each of the three outcomes has happened: here, null for an id without row
C16_Witness ==
    /\ gw.op = "getClassificationById"
    /\ store # <<>>
    /\ Records(gw.arg.id) = {}
    /\ gw.ret = << <<>> >>
    /\ gw.err = NoError

\* C17: a deleteClassification that the store answers raises nothing; for an
\* id without record, and for an id whose deletion was the call before, it
\* leaves the store as it was.
C17_DeleteOfMissing ==
    [][ (gw'.op = "deleteClassification" /\ gw'.arg.storeError = NoError)
          => /\ gw'.err = NoError
             /\ ( \/ Records(gw'.arg.id) = {}
                  \/ /\ gw.op = "deleteClassification"
                     /\ gw.arg.id = gw'.arg.id
                     /\ gw.err = NoError )
                  => store' = store ]_vars

C17_Witness ==
    /\ gw.op = "deleteClassification"
    /\ store # <<>>
    /\ Records(gw.arg.id) = {}
    /\ gw.arg.storeError = NoError
    /\ gw.err = NoError

\* C18: a successful updateClassification leaves the record's identifier and
\* creation timestamp as they were and sets its update timestamp to the time
\* of the update, which is not before the previous one, whatever fields were
\* passed; the other records are left as they were.
C18_UpdateKeepsIdentity ==
    [][ (gw'.op = "updateClassification" /\ gw'.err = NoError /\ gw' # gw)
          => /\ DOMAIN store' = DOMAIN store
             /\ Records(gw'.arg.id) # {}
             /\ \A i \in DOMAIN store :
                  IF store[i].id = gw'.arg.id
                  THEN /\ store'[i].id = store[i].id
                       /\ store'[i].created_at = store[i].created_at
                       /\ store'[i].updated_at = clock
                       /\ store'[i].updated_at >= store[i].updated_at
                       /\ gw'.ret = <<store'[i]>>
                  ELSE store'[i] = store[i] ]_vars

\* a record updated twice
C18_Witness ==
    /\ gw.op = "updateClassification"
    /\ gw.err = NoError
    /\ \E i \in DOMAIN store :
         /\ store[i].id = gw.arg.id
         /\ store[i].updated_at > store[i].created_at + 1
         /\ gw.ret = <<store[i]>>

OutOfRange(confidence) == confidence < 0 \/ confidence > 100

\* C19: every record of the store has a confidence in 0..100, and a save or
\* update that carries a confidence outside 0..100 raises an error and leaves
\* the store as it was.
C19_ConfidenceInRange ==
    /\ [](\A i \in DOMAIN store : ~OutOfRange(store[i].confidence))
    /\ [][ (/\ gw'.op \in { "saveClassification", "updateClassification" }
            /\ "confidence" \in DOMAIN gw'.arg.record
            /\ OutOfRange(gw'.arg.record.confidence))
             => (gw'.err # NoError /\ gw'.ret = <<>> /\ store' = store) ]_vars

\* an update to 101 of an existing record was refused
C19_Witness ==
    /\ gw.op = "updateClassification"
    /\ Records(gw.arg.id) # {}
    /\ gw.arg.storeError = NoError
    /\ gw.arg.record = [confidence |-> 101]
    /\ Includes(gw.err, CheckViolation)

\* C20: every record of the store has a non-empty HS code, a non-empty
\* chapter and a non-empty description.
C20_RequiredTextsNonEmpty ==
    \A i \in DOMAIN store :
        /\ store[i].hs_code # <<>>
        /\ store[i].chapter # <<>>
        /\ store[i].description # <<>>

-----------------------------------------------------------------------------
(* The convenience queries of DatabaseService: findSimilarProducts,        *)
(* getClassificationsByHSCode, getClassificationsByCustomer,               *)
(* getDualUseClassifications, searchProductsByName, searchByHSCodePattern   *)
(* and searchCustomersByPattern                                            *)

\* the queries whose `if (error)` branch throws, with the text before
\* ${error.message}
ThrowingQueries ==
    [ getClassificationsByHSCode |->
          <<"Failed", "to", "fetch", "classifications", "by", "HS", "code:">>,
      getClassificationsByCustomer |->
          <<"Failed", "to", "fetch", "classifications", "by", "customer:">>,
      getDualUseClassifications |->
          <<"Failed", "to", "fetch", "dual-use", "classifications:">> ]

\* the queries whose `if (error)` branch is console.error(...); return [];
\* with the default of their limit parameter (0: they take none)
SwallowingQueries ==
    [ findSimilarProducts |-> 5, searchProductsByName |-> 10,
      searchByHSCodePattern |-> 0, searchCustomersByPattern |-> 0 ]

ConvenienceQueries == DOMAIN ThrowingQueries \cup DOMAIN SwallowingQueries

\* the rows the filter of query keeps; ILikePrefix is column ilike 'term%'
ConvenienceFilter(query, value, rows) ==
    LET ILikePrefix(text, term) ==
            /\ Len(term) <= Len(text)
            /\ \A j \in DOMAIN term : Lower(text[j]) = Lower(term[j])
    IN  SelectSeq(rows, LAMBDA row :
        CASE query \in { "findSimilarProducts", "searchProductsByName" } ->
                 ILike(row.product_name, value)
          [] query = "getClassificationsByHSCode" -> row.hs_code = value
          [] query = "getClassificationsByCustomer" -> row.customer_name = <<value>>
          [] query = "getDualUseClassifications" -> row.is_dual_use
          [] query = "searchByHSCodePattern" -> ILikePrefix(row.hs_code, value)
          [] OTHER ->
                 \E i \in DOMAIN row.customer_name : ILike(row.customer_name[i], value))

\* what the select of query can return: newest first, cut at the limit where
\* the query has one
ConvenienceRows(query, value, limit, rows) ==
    { IF query \in { "findSimilarProducts", "searchProductsByName" }
      THEN Take(ordered, IF Given(limit) THEN limit[1] ELSE SwallowingQueries[query])
      ELSE ordered :
        ordered \in Ordered(ConvenienceFilter(query, value, rows), "created_at", "desc") }

\* how the call ends when its one request is answered with rows, or with
\* storeError: none of the seven is handed to retryOperation
ConvenienceSettled(query, rows, storeError) ==
    IF storeError = NoError THEN [ret |-> <<rows>>, err |-> NoError]
    ELSE IF query \in DOMAIN ThrowingQueries
    THEN [ret |-> <<>>, err |-> ThrowingQueries[query] \o storeError]
    ELSE [ret |-> << <<>> >>, err |-> NoError]

\* a convenience query is about to be called on some store
InitConvenience ==
    LET values == { <<"r", "o", "u", "t", "e", "r">>, <<"8", "5", "1", "7">>,
                    QueryRecords[2].hs_code, <<"A", "c", "m", "e">>,
                    <<"a", "c">> }
    IN  /\ AtRest
        /\ store \in { [i \in DOMAIN records |-> Row(StoreId(i), records[i], i)] :
                         records \in SubSequences(QueryRecords) }
        /\ nextId = Len(store) + 1
        /\ clock = Len(store) + 1
        /\ \E query \in ConvenienceQueries, value \in values, limit \in { <<>>, <<1>> } :
             gw = [NoGatewayCall EXCEPT
                      !.op = query,
                      !.arg = [value |-> value, limit |-> limit, trace |-> <<>>]]

\* the call: one request to the store, answered with rows or with storeError
ConvenienceQuery(rows, storeError) ==
    /\ gw.op \in ConvenienceQueries
    /\ gw.arg.trace = <<>>
    /\ LET r == ConvenienceSettled(gw.op, rows, storeError)
       IN  gw' = [gw EXCEPT !.arg.trace = <<storeError>>, !.ret = r.ret, !.err = r.err]
    /\ UNCHANGED <<uiVars, api, cp, clock>>

SpecConvenience ==
    InitConvenience
    /\ [][\E storeError \in QueryErrors :
            \E rows \in ConvenienceRows(gw.op, gw.arg.value, gw.arg.limit, store) :
                ConvenienceQuery(rows, storeError)]_vars

\* the call of a convenience query has ended
ConvenienceEnded == gw.op \in ConvenienceQueries /\ gw.arg.trace # <<>>

\* C21: a convenience query to whose request the store reports a failure
\* returns nothing and raises an error that carries the store's message
\* behind a text naming the operation.
C21_StoreFailureRaised ==
    (ConvenienceEnded /\ gw.arg.trace[1] # NoError)
        => /\ gw.ret = <<>>
           /\ Includes(gw.err, gw.arg.trace[1])
           /\ Len(gw.err) > Len(gw.arg.trace[1])

\* C22: a convenience query ends as a call under retryOperation does: not on
\* a transient failure while retries are left (so after at most
\* DefaultRetries + 1 requests), and with an error raised when its last
\* request failed.
C22_ConvenienceRetried ==
    ConvenienceEnded
        => LET trace == gw.arg.trace
               last == trace[Len(trace)]
           IN  /\ Len(trace) <= DefaultRetries + 1
               /\ Transient(last) => Len(trace) = DefaultRetries + 1
               /\ \A i \in 1..(Len(trace) - 1) : Transient(trace[i])
               /\ last # NoError => gw.err # NoError /\ gw.ret = <<>>

-----------------------------------------------------------------------------
(* analyzeCompanyProducts: the completion text and its extraction           *)

MaxProducts == 7

\* A member "products": value of a completion text is Tok("products", s, n),
\* s the kind of JSON value (null, string, object, array) and n its length.
InvalidAnalysisData == <<"Invalid", "company", "analysis", "data", "from", "OpenAI">>
CompanyAnalysisFailedPrefix == <<"Company", "analysis", "failed:">>

AnalysisKeys == { "products", "industry", "riskLevel" }

\* the object JSON.parse builds from the members of the span
AnalysisOf(fields) ==
    LET has == Present(fields)
    IN  [ has |-> has,
          products |-> IF "products" \in has THEN LastOf(fields, "products")
                       ELSE Tok("products", "undefined", 0),
          industry |-> IF "industry" \in has THEN LastOf(fields, "industry").s ELSE "",
          riskLevel |-> IF "riskLevel" \in has THEN LastOf(fields, "riskLevel").s ELSE "" ]

\* !analysis.products || !Array.isArray(analysis.products) ||
\* analysis.products.length === 0, as a product list that passes
HasProducts(products) ==
    /\ ~(products.s \in { "undefined", "null" } \/ (products.s = "string" /\ products.n = 0))
    /\ products.s = "array"
    /\ ~(products.n = 0)

\* the function, given how the completion request settled: the try block,
\* and the catch that throws every error again as
\* `Company analysis failed: ${error.message}`
AnalyzeCompanyProducts(completion) ==
    LET response == completion.text
        span == JsonMatch(response)
        analysis == AnalysisOf(Members(span))
        thrown ==
            IF completion.failed THEN completion.message
            ELSE IF response = <<>> THEN NoResponse
            ELSE IF ~HasMatch(response) THEN InvalidJSON
            ELSE IF \E i \in DOMAIN Members(span) : Members(span)[i].k \notin AnalysisKeys
            THEN SyntaxErrorMessage
            ELSE IF ~HasProducts(analysis.products) THEN InvalidAnalysisData
            ELSE NoError
    IN  IF thrown = NoError THEN [ret |-> <<analysis>>, err |-> NoError]
        ELSE [ret |-> <<>>, err |-> CompanyAnalysisFailedPrefix \o thrown]

\* the completion texts of this specification: up to three members in the
\* prompt's order, repeated keys included, inside the surroundings of Texts
AnalysisTexts ==
    LET members ==
            { Tok("products", "null", 0), Tok("products", "string", 0),
              Tok("products", "string", 7), Tok("products", "object", 0),
              Tok("industry", "Electronics", 0), Tok("riskLevel", "Medium", 0) }
              \cup { Tok("products", "array", n) : n \in 0..MaxProducts }
        Place(k) == CASE k = "products" -> 1 [] k = "industry" -> 2 [] OTHER -> 3
        lists == { m \in UNION { [1..n -> members] : n \in 0..3 } :
                     \A i \in 1..(Len(m) - 1) : Place(m[i].k) <= Place(m[i + 1].k) }
    IN  { b \o m \o a : b \in Before, m \in lists, a \in After }

\* the completion request of one call has settled
InitPortfolio ==
    /\ AtRest
    /\ store = <<ExistingRow>>
    /\ nextId = 1
    /\ clock = 1
    /\ \E completion \in { ApiAnswered(t) : t \in AnalysisTexts }
                           \cup { ApiFailed(m) : m \in ApiFailures } :
         gw = [NoGatewayCall EXCEPT !.op = "analyzeCompanyProducts", !.arg = completion]

\* analyzeCompanyProducts runs on the settled completion request
Analyze ==
    /\ gw.op = "analyzeCompanyProducts"
    /\ gw.ret = <<>> /\ gw.err = NoError
    /\ LET r == AnalyzeCompanyProducts(gw.arg)
       IN  gw' = [gw EXCEPT !.ret = r.ret, !.err = r.err]
    /\ UNCHANGED <<uiVars, api, cp, clock>>

SpecPortfolio == InitPortfolio /\ [][Analyze]_vars

\* analyzeCompanyProducts has run on a completion text
Analyzed ==
    /\ gw.op = "analyzeCompanyProducts"
    /\ ~gw.arg.failed
    /\ (gw.ret # <<>> \/ gw.err # NoError)

\* the well-formed JSON objects that span text t from its first '{' to its
\* last '}'
SpanObjects(t) ==
    { p \in (DOMAIN t) \X (DOMAIN t) :
        /\ p[1] < p[2]
        /\ t[p[1]] = LBrace
        /\ t[p[2]] = RBrace
        /\ SpansText(t, p)
        /\ \A k \in (p[1] + 1)..(p[2] - 1) : t[k].k \in AnalysisKeys }

\* object p of t has no products member, one that is not a list, or an
\* empty list
NoProductList(t, p) ==
    \A k \in (p[1] + 1)..(p[2] - 1) :
        (Decides(t, p, k) /\ t[k].k = "products") => (t[k].s # "array" \/ t[k].n = 0)

\* The kind of an error of analyzeCompanyProducts, by the throw statement that
\* made it: the catch block's `Company analysis failed: ...`, or 'Invalid
\* company analysis data from OpenAI' (EmptyPortfolio).
AnalysisErrorKind(message) ==
    IF SubSeq(message, 1, Len(CompanyAnalysisFailedPrefix)) = CompanyAnalysisFailedPrefix
    THEN "CompanyAnalysisFailed"
    ELSE IF message = InvalidAnalysisData THEN "EmptyPortfolio"
    ELSE "Other"

\* C23: whenever the parsed object has no products field, a products field
\* that is not a list, or an empty products list, analyzeCompanyProducts
\* returns nothing and the caller receives an EmptyPortfolio error; and no
\* result it returns has zero products.
C23_EmptyPortfolio ==
    Analyzed
        => /\ \A p \in SpanObjects(gw.arg.text) :
                NoProductList(gw.arg.text, p)
                    => (gw.ret = <<>> /\ AnalysisErrorKind(gw.err) = "EmptyPortfolio")
           /\ \A i \in DOMAIN gw.ret :
                gw.ret[i].products.s = "array" /\ gw.ret[i].products.n > 0

\* C24: every result analyzeCompanyProducts returns holds between 3 and 6
\* products.
C24_ThreeToSixProducts ==
    Analyzed => \A i \in DOMAIN gw.ret : gw.ret[i].products.n \in 3..6

-----------------------------------------------------------------------------
(* The flows of App: C25, C27, C28, C29, C30 *)

\* C25: within one submission the steps come in the order classification
\* call, store insert, displayed-list update. An insert is attempted only
\* once classifyProduct has returned a record, and it is the record made
\* from it; none is attempted when classifyProduct failed; the store changes
\* only in such an attempt; and the result is put on the displayed list in
\* the step in which the save, retries included, settles, not before.
C25_StepsInOrder ==
    /\ [](/\ (hc.call.attempts > 0 \/ hc.inserted > 0)
                => /\ cp.ok
                   /\ hc.requests = 1
                   /\ hc.dbRecord = DbRecordOf(hc.productName, cp.value)
          /\ hc.outcome = "classify_failed" => (hc.call = NoCall /\ hc.inserted = 0)
          /\ hc.pc \in { "classifying", "saving" }
                => \A i \in DOMAIN results : results[i].id # LocalId(submits))
    /\ [][/\ store' # store => (hc.pc = "saving" /\ cp.ok)
          /\ (results' # results /\ hc' # hc)
                => /\ hc.pc = "saving"
                   /\ hc'.call.pc \in { "returned", "failed" }
                   /\ hc'.call.attempts >= 1
                   /\ results' = <<hc.result>> \o results]_vars

\* a save that failed after two retries, and only then the result displayed
C25_Witness ==
    /\ hc.outcome = "save_failed"
    /\ hc.call.attempts = DefaultRetries + 1
    /\ hc.call.waited = <<1000, 1500>>
    /\ results # <<>>
    /\ results[1] = hc.result

\* two entries of the displayed list show the same classification
SameResult(a, b) ==
    /\ a.productName = b.productName
    /\ a.hsCode = b.hsCode
    /\ a.chapter = b.chapter
    /\ a.description = b.description
    /\ a.confidence = b.confidence
    /\ a.isDualUse = b.isDualUse

\* C27: once the result of a submission is on the displayed list, the list
\* shows it after every later step, whichever of the two flows takes it (as
\* the entry handleClassification made or as the record a history load read
\* back).
C27_ResultStaysDisplayed ==
    [][\A i \in DOMAIN results :
          results[i].productName \in ProductNames
              => \E j \in DOMAIN results' : SameResult(results[i], results'[j])]_vars


\* C28: at most one submission is in flight at any time. isLoading is true
\* exactly while handleClassification runs; a submission starts only when
\* none is running; so each result is put on the list before the next
\* submission starts, and the entries made by handleClassification stand on
\* the list newest first.
C28_OneSubmissionInFlight ==
    /\ [](/\ isLoading <=> hc.pc \in { "classifying", "saving" }
          /\ \A i, j \in DOMAIN results :
                (i < j /\ results[i].id.src = "Date.now" /\ results[j].id.src = "Date.now")
                    => results[i].id.n > results[j].id.n)
    /\ [][submits' # submits
            => /\ hc.pc = "idle" /\ ~isLoading
               /\ submits' = submits + 1
               /\ hc'.pc = "classifying" /\ isLoading']_vars

\* two submissions, both displayed, the second above the first
C28_Witness ==
    /\ submits = 2
    /\ ~isLoading
    /\ Len(results) >= 2
    /\ results[1].id = LocalId(2)
    /\ results[2].id = LocalId(1)

\* a step of the running handleClassification: a remote call of it settles,
\* or the timer of a retry delay fires
HC_Step ==
    \/ \E message \in ApiFailures : HC_CompletionFailed(message)
    \/ \E response \in Completions : HC_CompletionArrived(response)
    \/ \E outcome \in RequestOutcomes : HC_SaveAttempt(outcome)
    \/ HC_SaveDelayElapsed

\* the flows when every remote call of a submission eventually settles and
\* every timer fires
SpecLive == Init /\ [][Next]_vars /\ WF_vars(HC_Step)

\* C29: every submission eventually ends with isLoading false, however its
\* classification and its save end.
C29_LoadingEnds ==
    [](isLoading => <>(~isLoading /\ hc.pc = "idle" /\ hc.outcome # "none"))

\* a submission has ended after a save that failed on its third attempt
C29_Witness ==
    /\ ~isLoading
    /\ hc.pc = "idle"
    /\ hc.outcome = "save_failed"
    /\ hc.call.attempts = DefaultRetries + 1

\* C30: every entry of the displayed result list has a confidence between
\* 0 and 100.
C30_DisplayedConfidenceInRange ==
    \A i \in DOMAIN results : results[i].confidence \in 0..100

-----------------------------------------------------------------------------
(* ClassificationForm: handleSubmit, which hands the description to        *)
(* handleClassification                                                    *)

MaxTextLen == 3

\* what the user has typed into the form when the submit event arrives
FormInputs ==
    [ productName : UNION { [1..n -> { "a", " ", "\n" }] : n \in 0..MaxTextLen },
      customerName : { <<" ", "A">> },
      includeCustomerAnalysis : BOOLEAN ]

InitForm ==
    /\ AtRest
    /\ store = <<ExistingRow>>
    /\ nextId = 1
    /\ clock = 1
    /\ gw = NoGatewayCall

\* The form's submit event: handleSubmit, and handleClassification up to the
\* await of the completion request when handleSubmit calls onSubmit. The
\* submit button is disabled while isLoading; it is also disabled for a
\* description that is blank, the test handleSubmit makes again itself.
HandleSubmit(form) ==
    LET productName == Trim(form.productName)
        customerName == IF form.includeCustomerAnalysis
                        THEN <<Trim(form.customerName)>> ELSE <<>>
    IN  /\ ~isLoading
        /\ submits < MaxSubmits
        /\ IF productName # <<>>
           THEN /\ gw' = [ op |-> "handleSubmit", arg |-> form,
                           ret |-> << [productName |-> productName,
                                       customerName |-> customerName] >>,
                           err |-> NoError ]
                /\ submits' = submits + 1
                /\ isLoading' = TRUE
                /\ error' = NoError
                /\ hc' = [Idle EXCEPT !.pc = "classifying",
                                      !.productName = productName, !.requests = 1]
                /\ api' = Pending
                /\ cp' = NotCalled
           ELSE /\ gw' = [ op |-> "handleSubmit", arg |-> form, ret |-> <<>>,
                           err |-> NoError ]
                /\ UNCHANGED <<submits, isLoading, error, hc, api, cp>>
        /\ UNCHANGED <<clock, store, nextId, results, isLoadingHistory, lh, loads>>

SpecForm ==
    InitForm
    /\ [][\/ \E form \in FormInputs : HandleSubmit(form)
          \/ \E message \in ApiFailures : HC_CompletionFailed(message)]_vars

\* every character of text is white space
Blank(text) == \A i \in DOMAIN text : text[i] \in WhiteSpace

\* part is text without the white space around it
Stripped(text, part) ==
    \E i, j \in DOMAIN text :
        /\ part = SubSeq(text, i, j)
        /\ text[i] \notin WhiteSpace /\ text[j] \notin WhiteSpace
        /\ Blank(SubSeq(text, 1, i - 1)) /\ Blank(SubSeq(text, j + 1, Len(text)))

\* C26: a completion request is only ever made for a description that is
\* not blank and has no white space around it; a submit whose description
\* is empty or blank calls nothing and issues no request; and any other
\* submit passes on the description without the white space around it.
C26_DescriptionTrimmed ==
    /\ [](/\ hc.pc = "classifying"
                => (~Blank(hc.productName) /\ Stripped(hc.productName, hc.productName))
          /\ gw.op = "handleSubmit"
                => IF Blank(gw.arg.productName) THEN gw.ret = <<>>
                   ELSE /\ gw.ret # <<>>
                        /\ Stripped(gw.arg.productName, gw.ret[1].productName))
    /\ [][(gw' # gw /\ gw'.op = "handleSubmit")
            => IF Blank(gw'.arg.productName)
               THEN UNCHANGED <<hc, submits, isLoading, api>>
               ELSE /\ hc'.pc = "classifying" /\ hc'.requests = 1
                    /\ hc'.productName = gw'.ret[1].productName]_vars

C26_Witness ==
    /\ gw.op = "handleSubmit"
    /\ gw.arg.productName = <<" ", "a", "\n">>
    /\ hc.pc = "classifying"
    /\ hc.productName = <<"a">>
    /\ hc.requests = 1

====
